---- MODULE Spec2Model ----
(***************************************************************************)
(* A model of api/format.js: the readability adjuster, the syllable        *)
(* tokenizer, the Brownian block sizer, the emphasis selector and the HTTP *)
(* handler around them.                                                    *)
(*                                                                         *)
(* A JavaScript string is a sequence of one-character strings.  A regular  *)
(* expression is modelled by the scan it performs on such a sequence.      *)
(***************************************************************************)
EXTENDS Integers, Sequences, FiniteSets, TLC

VARIABLES
  pc,            \* the position in the code
  text,          \* the text argument
  sentences,     \* adjustReadability: the sentences still to visit
  trimmed,       \* adjustReadability: the sentence of the last iteration
  newSentences,  \* adjustReadability: the parts pushed so far
  adjusted,      \* the result of adjustReadability
  tokens,        \* the token array
  sizes,         \* brownianBlockSizes: the sizes pushed so far
  W,             \* brownianBlockSizes: the walk, in units of 1 / NoiseScale
  blocks,        \* formatSyllables: the block sliced for each size
  out,           \* the result of formatSyllables
  req,           \* the HTTP request: its method and the data of its body
  body,          \* the handler: the decoded body
  res            \* the HTTP response: its status and its JSON fields

vars == <<pc, text, sentences, trimmed, newSentences, adjusted, tokens, sizes, W,
          blocks, out, req, body, res>>

adjustVars == <<sentences, trimmed, newSentences, adjusted>>
formatVars == <<sizes, W, blocks, out>>
httpVars == <<req, body, res>>

\* The variables of the parts of the program a specification leaves out.
NoAdjust == sentences = <<>> /\ trimmed = <<>> /\ newSentences = <<>> /\ adjusted = <<>>
NoFormat == sizes = <<>> /\ W = 0 /\ blocks = <<>> /\ out = <<>>
NoHttp == req = "none" /\ body = "none" /\ res = "none"

\* ------------------------------------------------------------------ bounds

\* Longest input of the tokenizer specification.
MaxTokLen == 4

\* Longest input of the adjuster specification.
MaxAdjLen == 6

\* Most syllables of an input of the formatter specification.
MaxSyll == 22

\* The walk W counts in units of 1 / NoiseScale.
NoiseScale == 2

\* Longest text of a request body.
MaxHttpLen == 5

\* ------------------------------------------------------- character classes

UpperCase == <<"A","B","C","D","E","F","G","H","I","J","K","L","M",
               "N","O","P","Q","R","S","T","U","V","W","X","Y","Z">>

LowerCase == <<"a","b","c","d","e","f","g","h","i","j","k","l","m",
               "n","o","p","q","r","s","t","u","v","w","x","y","z">>

Digits == <<"0","1","2","3","4","5","6","7","8","9">>

Range(s) == {s[k] : k \in 1..Len(s)}

\* \w without the i flag: ASCII letters, digits and the underscore.
WordChars == Range(UpperCase) \cup Range(LowerCase) \cup Range(Digits) \cup {"_"}

\* \s, restricted to the white space the inputs use.
WhiteSpace == {" ", "\t", "\n"}

\* [.!?]
Terminals == {".", "!", "?"}

\* [aeiouyAEIOUY] of syllRe.
Vowels == {"a","e","i","o","u","y","A","E","I","O","U","Y"}

\* [aeiouy] of countSyllables.
LowerVowels == {"a","e","i","o","u","y"}

\* The mutant of toLowerCase: the case is kept.
toLowerCaseKept(c) == c

\* String.prototype.toLowerCase on one character.
toLowerCase(c) ==
  IF \E k \in 1..26 : UpperCase[k] = c
  THEN LowerCase[CHOOSE k \in 1..26 : UpperCase[k] = c]
  ELSE c

\* ------------------------------------------------------------ string helpers

\* Array.prototype.join("") on an array of strings.
RECURSIVE Flatten(_)
Flatten(ss) == IF ss = <<>> THEN <<>> ELSE Head(ss) \o Flatten(Tail(ss))

\* The index after the maximal run of characters of class S that starts at i
\* (i itself when s[i] is not in S): a greedy S* of a regular expression.
RECURSIVE RunEnd(_, _, _)
RunEnd(s, i, S) == IF i <= Len(s) /\ s[i] \in S THEN RunEnd(s, i + 1, S) ELSE i

\* The characters of s outside S: the negated class [^S] on s.
NotIn(s, S) == Range(s) \ S

\* All strings over alphabet of length at most n.
Strings(alphabet, n) == UNION {[1..k -> alphabet] : k \in 0..n}

\* ---------------------------------------------------------- countSyllables

\* The number of matches of /[aeiouy]+/g in s from index i on.
RECURSIVE VowelRuns(_, _)
VowelRuns(s, i) ==
  IF i > Len(s) THEN 0
  ELSE IF s[i] \in LowerVowels THEN 1 + VowelRuns(s, RunEnd(s, i, LowerVowels))
  ELSE VowelRuns(s, i + 1)

countSyllables(word) ==
  LET lower == [k \in 1..Len(word) |-> toLowerCase(word[k])]
      matches == VowelRuns(lower, 1)
  IN IF matches > 0 THEN matches ELSE 1

\* text.match(/\w+/g) || []: the maximal runs of word characters from i on.
RECURSIVE matchWords(_, _)
matchWords(s, i) ==
  IF i > Len(s) THEN <<>>
  ELSE IF s[i] \in WordChars
       THEN LET j == RunEnd(s, i, WordChars)
            IN <<SubSeq(s, i, j - 1)>> \o matchWords(s, j)
  ELSE matchWords(s, i + 1)

\* -------------------------------------------------------- fleschReadingEase

\* String.prototype.trim.
trim(s) ==
  LET keep == {k \in 1..Len(s) : s[k] \notin WhiteSpace}
  IN IF keep = {} THEN <<>>
     ELSE SubSeq(s, CHOOSE k \in keep : \A m \in keep : k <= m,
                    CHOOSE k \in keep : \A m \in keep : k >= m)

\* s.split(/[S]+/) for a character class S: the pieces of s between the
\* maximal runs of S, the empty pieces at the two ends included.
RECURSIVE splitRuns(_, _, _, _)
splitRuns(s, S, i, start) ==
  IF i > Len(s) THEN <<SubSeq(s, start, Len(s))>>
  ELSE IF s[i] \in S
       THEN LET j == RunEnd(s, i, S)
            IN <<SubSeq(s, start, i - 1)>> \o splitRuns(s, S, j, j)
  ELSE splitRuns(s, S, i + 1, start)

\* Array.prototype.filter(s => s.trim()) and the filter of lines 44 to 47:
\* the trimmed pieces that are not empty.
RECURSIVE trimmedNonEmpty(_)
trimmedNonEmpty(ps) ==
  IF ps = <<>> THEN <<>>
  ELSE (IF trim(Head(ps)) # <<>> THEN <<trim(Head(ps))>> ELSE <<>>)
       \o trimmedNonEmpty(Tail(ps))

RECURSIVE totalSyllables(_)
totalSyllables(words) ==
  IF words = <<>> THEN 0 ELSE countSyllables(Head(words)) + totalSyllables(Tail(words))

\* The score in hundredths, Math.round(score * 100), computed exactly:
\* score * 100 is (206835 S W - 1015 W^2 - 84600 Y S) / (10 S W) for S
\* sentences, W words and Y syllables, and Math.round(x) is floor(x + 1/2).
fleschReadingEase(t) ==
  LET numSentences == Len(trimmedNonEmpty(splitRuns(t, Terminals, 1, 1)))
      words == matchWords(t, 1)
      numWords == Len(words)
      syll == totalSyllables(words)
  IN IF numSentences = 0 \/ numWords = 0 THEN 0
     ELSE (206835 * numSentences * numWords - 1015 * numWords * numWords
           - 84600 * syll * numSentences + 5 * numSentences * numWords)
          \div (10 * numSentences * numWords)

\* --------------------------------------------------------- adjustReadability

\* The default band, in score points.
lower == 74
upper == 82

\* score >= lower && score <= upper, the score in hundredths.
inBand(score) == score >= lower * 100 /\ score <= upper * 100

\* The mutant of returnsUnchanged: only the empty text returns early.
returnsUnchangedEmptyOnly(t) == t = <<>>

\* Lines 26 to 28: the two early returns.
returnsUnchanged(t) == t = <<>> \/ inBand(fleschReadingEase(t))

\* text.split(/(?<=[.!?])\s+/): a split at each run of white space that
\* follows a terminal character.
RECURSIVE splitSentences(_, _, _)
splitSentences(s, i, start) ==
  IF i > Len(s) THEN <<SubSeq(s, start, Len(s))>>
  ELSE IF s[i] \in WhiteSpace /\ i > 1 /\ s[i - 1] \in Terminals
       THEN LET j == RunEnd(s, i, WhiteSpace)
            IN <<SubSeq(s, start, i - 1)>> \o splitSentences(s, j, j)
  ELSE splitSentences(s, i + 1, start)

\* trimmed.split(/,\s*/): a split at each comma and the white space after it.
RECURSIVE splitCommas(_, _, _)
splitCommas(s, i, start) ==
  IF i > Len(s) THEN <<SubSeq(s, start, Len(s))>>
  ELSE IF s[i] = ","
       THEN LET j == RunEnd(s, i + 1, WhiteSpace)
            IN <<SubSeq(s, start, i - 1)>> \o splitCommas(s, j, j)
  ELSE splitCommas(s, i + 1, start)

\* Array.prototype.join(" ").
RECURSIVE join(_)
join(ps) ==
  IF ps = <<>> THEN <<>>
  ELSE IF Len(ps) = 1 THEN Head(ps)
  ELSE Head(ps) \o <<" ">> \o join(Tail(ps))

\* The mutant of midpoint: one word further.
midpointNext(n) == n \div 2 + 1

\* Math.floor(words.length / 2)
midpoint(n) == n \div 2

\* Lines 40 to 42: the two halves of the words of a sentence.
bisect(sent) ==
  LET words == splitRuns(sent, WhiteSpace, 1, 1)
      mid == midpoint(Len(words))
  IN <<join(SubSeq(words, 1, mid)), join(SubSeq(words, mid + 1, Len(words)))>>

\* Lines 34 to 48: what one trimmed sentence pushes on newSentences.
pushed(sent) ==
  IF inBand(fleschReadingEase(sent)) THEN <<sent>>
  ELSE LET parts == splitCommas(sent, 1, 1)
       IN trimmedNonEmpty(IF Len(parts) <= 1 THEN bisect(sent) ELSE parts)

\* Lines 25 to 29: the early returns, or the split into sentences.
AdjustStart ==
  /\ pc = "adjust"
  /\ IF returnsUnchanged(text)
     THEN /\ adjusted' = text
          /\ pc' = "adjusted"
          /\ UNCHANGED sentences
     ELSE /\ sentences' = splitSentences(text, 1, 1)
          /\ pc' = "sentences"
          /\ UNCHANGED adjusted
  /\ trimmed' = <<>>
  /\ newSentences' = <<>>
  /\ UNCHANGED <<text, tokens, formatVars, httpVars>>

\* Lines 31 to 49: one iteration of the loop over the sentences.
AdjustSentence ==
  /\ pc = "sentences"
  /\ sentences # <<>>
  /\ trimmed' = trim(Head(sentences))
  /\ newSentences' = IF trimmed' = <<>> THEN newSentences
                     ELSE newSentences \o pushed(trimmed')
  /\ sentences' = Tail(sentences)
  /\ UNCHANGED <<pc, text, adjusted, tokens, formatVars, httpVars>>

\* Line 50: the parts joined with single spaces.
AdjustJoin ==
  /\ pc = "sentences"
  /\ sentences = <<>>
  /\ adjusted' = join(newSentences)
  /\ pc' = "adjusted"
  /\ UNCHANGED <<text, sentences, trimmed, newSentences, tokens, formatVars, httpVars>>

\* ------------------------------------------- the adjuster on its own

\* A vowel, a consonant, white space, a terminal character and the comma.
AdjAlphabet == {"a", "b", " ", ".", ","}

AdjInit ==
  /\ pc = "adjust"
  /\ text \in Strings(AdjAlphabet, MaxAdjLen)
  /\ tokens = <<>>
  /\ NoAdjust /\ NoFormat /\ NoHttp

AdjNext == AdjustStart \/ AdjustSentence \/ AdjustJoin

SpecAdj == AdjInit /\ [][AdjNext]_vars

\* C7: adjustReadability returns the empty text, and a text whose score is in
\* the band [74, 82], unchanged.
InBandUnchanged ==
  pc = "adjusted" =>
    (text = <<>> \/ (fleschReadingEase(text) >= 7400 /\ fleschReadingEase(text) <= 8200)
       => adjusted = text)

\* A text in the band that the loop over the sentences would have trimmed
\* has been returned.
InBandUnchangedWitness ==
  /\ pc = "adjusted"
  /\ fleschReadingEase(text) >= 7400 /\ fleschReadingEase(text) <= 8200
  /\ trim(text) # text
  /\ adjusted = text

\* The sentence of an iteration is outside the band and has no comma.
BisectCase(sent) ==
  /\ sent # <<>>
  /\ ~(fleschReadingEase(sent) >= 7400 /\ fleschReadingEase(sent) <= 8200)
  /\ "," \notin Range(sent)

\* The words of a sentence from index a through index b (counted from 0),
\* rejoined with single spaces.
WordGroup(sent, a, b) ==
  LET ws == splitRuns(sent, WhiteSpace, 1, 1)
  IN join(SubSeq(ws, a + 1, b + 1))

WordCount(sent) == Len(splitRuns(sent, WhiteSpace, 1, 1))

\* C9 as stated: a sentence outside the band without a comma pushes two
\* groups, the words 0 through floor(n/2) and the words after floor(n/2).
BisectInclusive ==
  [][pc = "sentences" /\ sentences # <<>> /\ BisectCase(trim(Head(sentences)))
     => LET sent == trim(Head(sentences))
            n == WordCount(sent)
        IN newSentences' = newSentences \o
             <<WordGroup(sent, 0, n \div 2), WordGroup(sent, n \div 2 + 1, n - 1)>>]_vars

\* C9 as amended: such a sentence pushes the words 0 through floor(n/2) - 1
\* and then the words floor(n/2) through n - 1; a sentence of one word has an
\* empty first group and pushes the second only.
BisectExclusive ==
  [][pc = "sentences" /\ sentences # <<>> /\ BisectCase(trim(Head(sentences)))
     => LET sent == trim(Head(sentences))
            n == WordCount(sent)
        IN newSentences' = newSentences \o
             (IF n = 1 THEN <<sent>>
              ELSE <<WordGroup(sent, 0, n \div 2 - 1), WordGroup(sent, n \div 2, n - 1)>>)]_vars

\* A sentence of three words, separated by more than single spaces, outside
\* the band and without a comma, was bisected after its first word.
BisectExclusiveWitness ==
  /\ pc = "sentences"
  /\ BisectCase(trimmed)
  /\ WordCount(trimmed) = 3
  /\ Len(trimmed) > 5
  /\ Len(newSentences) >= 2
  /\ newSentences[Len(newSentences) - 1] = WordGroup(trimmed, 0, 0)
  /\ newSentences[Len(newSentences)] = WordGroup(trimmed, 1, 2)

\* ----------------------------------------------------- tokenizeToSyllables

\* text.matchAll(/\w+|[^\w\s]|\s+/gu) from index i on: a run of word
\* characters, one character that is neither word nor space, or a run of
\* white space.
RECURSIVE matchAll(_, _)
matchAll(s, i) ==
  IF i > Len(s) THEN <<>>
  ELSE LET j == IF s[i] \in WordChars THEN RunEnd(s, i, WordChars)
                ELSE IF s[i] \notin WhiteSpace THEN i + 1
                ELSE RunEnd(s, i, WhiteSpace)
       IN <<SubSeq(s, i, j - 1)>> \o matchAll(s, j)

\* tok.match(syllRe) from index i on.  One match is [^V]* [V]+ and then
\* either [^V]+ followed by a vowel (the lookahead) or nothing.  A match
\* attempt fails only where no vowel is left, and then every later one fails.
RECURSIVE matchSyll(_, _)
matchSyll(w, i) ==
  LET a == RunEnd(w, i, NotIn(w, Vowels))
  IN IF a > Len(w) THEN <<>>
     ELSE LET b == RunEnd(w, a, Vowels)
              c == RunEnd(w, b, NotIn(w, Vowels))
              e == IF c > b /\ c <= Len(w) THEN c ELSE b
          IN <<SubSeq(w, i, e - 1)>> \o matchSyll(w, e)

\* /^\s+$/.test(tok) || /[^\w\s]/.test(tok)
isSep(tok) ==
  \/ tok # <<>> /\ Range(tok) \subseteq WhiteSpace
  \/ \E k \in 1..Len(tok) : tok[k] \notin WordChars \cup WhiteSpace

\* The tokens one match of re contributes.
tokensOf(tok) ==
  IF isSep(tok) THEN <<[type |-> "sep", text |-> tok]>>
  ELSE LET parts == IF matchSyll(tok, 1) # <<>> THEN matchSyll(tok, 1) ELSE <<tok>>
       IN [k \in 1..Len(parts) |-> [type |-> "syll", text |-> parts[k]]]

tokenizeToSyllables(t) ==
  LET ms == matchAll(t, 1)
  IN Flatten([k \in 1..Len(ms) |-> tokensOf(ms[k])])

\* ------------------------------------------------------ brownianBlockSizes

\* The defaults of brownianBlockSizes.
base == 21
minSize == 4
maxSize == 12

\* The results of randn() the model draws, in units of 1 / NoiseScale.  A
\* Box-Muller sample of two 53-bit uniforms lies within about 8.6 of zero.
randn == {-17, 11}

\* The mutant of clamp: the lower bound is not applied.
clampUpperOnly(raw) == IF raw > maxSize THEN maxSize ELSE raw

\* Lines 93 and 94.
clamp(raw) ==
  LET r == IF raw < minSize THEN minSize ELSE raw
  IN IF r > maxSize THEN maxSize ELSE r

\* Math.floor(base - Math.abs(W)) for the walk w / NoiseScale.
rawSize(w) == base + ((-(IF w < 0 THEN -w ELSE w)) \div NoiseScale)

\* ---------------------------------------------------------- formatSyllables

\* Line 102: the indices of the syllable tokens from k on, in order.  Indices
\* count from 1 here.
RECURSIVE syllIdxs(_, _)
syllIdxs(ts, k) ==
  IF k > Len(ts) THEN <<>>
  ELSE (IF ts[k].type = "syll" THEN <<k>> ELSE <<>>) \o syllIdxs(ts, k + 1)

\* Math.ceil(total / 2)
nBlocks(total) == (total + 1) \div 2

\* Array.prototype.slice(from, to) for 0 <= from <= to, indices from 0.
slice(a, from, to) ==
  IF from >= Len(a) THEN <<>>
  ELSE SubSeq(a, from + 1, IF to < Len(a) THEN to ELSE Len(a))

\* The mutant of nextIdx: one index is skipped between two blocks.
nextIdxSkip(idx, size) == idx + size + 1

\* The mutant of nextIdx: the index does not advance.
nextIdxStuck(idx, size) == idx

\* Line 115.
nextIdx(idx, size) == idx + size

\* Line 108 for every size: the blocks, in order.
RECURSIVE sliceBlocks(_, _, _)
sliceBlocks(idxs, szs, idx) ==
  IF szs = <<>> THEN <<>>
  ELSE <<slice(idxs, idx, idx + Head(szs))>>
       \o sliceBlocks(idxs, Tail(szs), nextIdx(idx, Head(szs)))

\* The standard deviations, in hundredths.
sigmaR == 374
sigmaL == 241

\* gaussianAsym(x) > 0.8, that is x^2 < 2 sigma^2 ln(5/4).  ln(5/4) lies
\* between 0.223 and 0.224, and for an integer x both bounds decide alike.
emphasized(x) ==
  LET sigma == IF x >= 0 THEN sigmaR ELSE sigmaL
  IN 1000 * (100 * x) * (100 * x) < 2 * sigma * sigma * 223

\* How often line 112 runs for token k: once for each block and position
\* that hold k with a weight above 0.8.
wraps(bs, k) ==
  Cardinality({<<b, pos>> \in (1..Len(bs)) \X (0..base) :
                 /\ pos < Len(bs[b])
                 /\ bs[b][pos + 1] = k
                 /\ emphasized(pos - (Len(bs[b]) \div 2))})

\* Line 112, n times over.
RECURSIVE wrap(_, _)
wrap(t, n) == IF n = 0 THEN t ELSE wrap(<<"*", "*">> \o t \o <<"*", "*">>, n - 1)

\* Lines 102 to 105 and 88 to 89: the first size is the base.
FormatStart ==
  /\ pc = "tokenized"
  /\ sizes' = <<base>>
  /\ W' = 0
  /\ pc' = "sizes"
  /\ UNCHANGED <<text, adjustVars, tokens, blocks, out, httpVars>>

\* Lines 90 to 96: one iteration, i = Len(sizes) + 1.
DrawSize ==
  /\ pc = "sizes"
  /\ Len(sizes) + 1 <= nBlocks(Len(syllIdxs(tokens, 1)))
  /\ \E z \in randn :
       /\ W' = W + z
       /\ sizes' = Append(sizes, clamp(rawSize(W')))
  /\ UNCHANGED <<pc, text, adjustVars, tokens, blocks, out, httpVars>>

\* Lines 97 and 106 to 117: the blocks, the markers and the joined text.
Emphasize ==
  /\ pc = "sizes"
  /\ Len(sizes) + 1 > nBlocks(Len(syllIdxs(tokens, 1)))
  /\ blocks' = sliceBlocks(syllIdxs(tokens, 1), sizes, 0)
  /\ tokens' = [k \in 1..Len(tokens) |->
                  [type |-> tokens[k].type,
                   text |-> wrap(tokens[k].text, wraps(blocks', k))]]
  /\ out' = Flatten([k \in 1..Len(tokens') |-> tokens'[k].text])
  /\ pc' = "formatted"
  /\ UNCHANGED <<text, adjustVars, sizes, W, httpVars>>

\* ------------------------------------------- the tokenizer on its own

\* Letters of both cases, a consonant, a digit, white space, punctuation and
\* a letter outside ASCII.
TokAlphabet == {"a", "Y", "b", "7", " ", ".", "é"}

TokInit ==
  /\ pc = "tokenize"
  /\ text \in Strings(TokAlphabet, MaxTokLen)
  /\ tokens = <<>>
  /\ NoAdjust /\ NoFormat /\ NoHttp

Tokenize ==
  /\ pc = "tokenize"
  /\ tokens' = tokenizeToSyllables(text)
  /\ pc' = "tokenized"
  /\ UNCHANGED <<text, adjustVars, formatVars, httpVars>>

TokNext == Tokenize

SpecTok == TokInit /\ [][TokNext]_vars

\* The texts of a token sequence, concatenated.
TokenTexts(ts) == Flatten([k \in 1..Len(ts) |-> ts[k].text])

\* The lengths of the maximal runs of consecutive syllable tokens from i on:
\* two words of a text always have a separator between them, so the runs are
\* the words, in order.
RECURSIVE SyllRuns(_, _)
SyllRuns(ts, i) ==
  IF i > Len(ts) THEN <<>>
  ELSE IF ts[i].type = "syll"
       THEN LET j == CHOOSE j \in i + 1..Len(ts) + 1 :
                       /\ \A k \in i..j - 1 : ts[k].type = "syll"
                       /\ j = Len(ts) + 1 \/ ts[j].type # "syll"
            IN <<j - i>> \o SyllRuns(ts, j)
  ELSE SyllRuns(ts, i + 1)

\* C1: the texts of the tokens of tokenizeToSyllables, concatenated in order,
\* are the input string, trailing consonants of a word included.
TokenizerRoundTrip == pc = "tokenized" => TokenTexts(tokens) = text

\* C10: for every word of the text, in order, the number of syllable tokens
\* of the word equals countSyllables of the word.
SyllableTokensMatchCount ==
  pc = "tokenized" =>
    LET words == matchWords(text, 1)
    IN SyllRuns(tokens, 1) = [k \in 1..Len(words) |-> countSyllables(words[k])]

\* A word with an upper-case vowel and two vowel runs has been tokenized
\* into two syllable tokens.
SyllableTokensMatchCountWitness ==
  /\ pc = "tokenized"
  /\ \E k \in 1..Len(matchWords(text, 1)) :
       LET w == matchWords(text, 1)[k]
       IN countSyllables(w) = 2 /\ "Y" \in Range(w)
  /\ Cardinality({k \in 1..Len(tokens) : tokens[k].type = "syll"}) = 2

\* ---------------------------------------------------------------- processText

\* Line 123 inside processText: the adjusted text is tokenized.
TokenizeAdjusted ==
  /\ pc = "adjusted"
  /\ tokens' = tokenizeToSyllables(adjusted)
  /\ pc' = "tokenized"
  /\ UNCHANGED <<text, adjustVars, formatVars, httpVars>>

\* ------------------------------------------------- toHtml and toUnicodeBold

\* The least j >= i with "**" at j and no line terminator before it, or 0.
closing(s, i) ==
  LET js == {j \in i..Len(s) - 1 :
               /\ s[j] = "*" /\ s[j + 1] = "*"
               /\ \A k \in i..j - 1 : s[k] # "\n"}
  IN IF js = {} THEN 0 ELSE CHOOSE j \in js : \A m \in js : j <= m

\* markdown.replace(/\*\*(.*?)\*\*/g, "<strong>$1</strong>") from index i on.
RECURSIVE toHtml(_, _)
toHtml(s, i) ==
  IF i > Len(s) THEN <<>>
  ELSE IF i < Len(s) /\ s[i] = "*" /\ s[i + 1] = "*" /\ closing(s, i + 2) > 0
       THEN LET j == closing(s, i + 2)
            IN <<"<", "s", "t", "r", "o", "n", "g", ">">> \o SubSeq(s, i + 2, j - 1)
               \o <<"<", "/", "s", "t", "r", "o", "n", "g", ">">> \o toHtml(s, j + 2)
  ELSE <<s[i]>> \o toHtml(s, i + 1)

\* result.replace(/\*\*/g, "") from index i on.
RECURSIVE stripMarkers(_, _)
stripMarkers(s, i) ==
  IF i > Len(s) THEN <<>>
  ELSE IF i < Len(s) /\ s[i] = "*" /\ s[i + 1] = "*" THEN stripMarkers(s, i + 2)
  ELSE <<s[i]>> \o stripMarkers(s, i + 1)

\* ch.codePointAt(0) for the characters of the inputs.
codePointAt(ch) ==
  IF \E k \in 1..26 : UpperCase[k] = ch THEN 64 + (CHOOSE k \in 1..26 : UpperCase[k] = ch)
  ELSE IF \E k \in 1..26 : LowerCase[k] = ch THEN 96 + (CHOOSE k \in 1..26 : LowerCase[k] = ch)
  ELSE IF \E k \in 1..10 : Digits[k] = ch THEN 47 + (CHOOSE k \in 1..10 : Digits[k] = ch)
  ELSE CASE ch = " " -> 32
         [] ch = "*" -> 42
         [] ch = "," -> 44
         [] ch = "." -> 46
         [] OTHER -> 65533

\* Lines 133 to 141: the code points of the result.
toUnicodeBold(s) ==
  [k \in 1..Len(s) |->
     LET code == codePointAt(s[k])
     IN IF code >= 65 /\ code <= 90 THEN 119808 + (code - 65)
        ELSE IF code >= 97 /\ code <= 122 THEN 119834 + (code - 97)
        ELSE IF code >= 48 /\ code <= 57 THEN 120782 + (code - 48)
        ELSE code]

\* -------------------------------------------------------------- the handler

\* A JSON value, as far as the handler reads it: null, a number, a string,
\* or an object with or without a member "text".  v holds the characters of
\* a string and the decimal digits of a number.
JsonNull == [t |-> "null", v |-> <<>>]
JsonUndefined == [t |-> "undefined", v |-> <<>>]
JsonNumber(digits) == [t |-> "number", v |-> digits]
JsonString(chars) == [t |-> "string", v |-> chars]

\* The decoded body: a value that is not an object, or an object and the
\* value of its member "text" (undefined when it has none).
NonObject(value) == [object |-> FALSE, value |-> value, member |-> JsonUndefined]
Object(member) == [object |-> TRUE, value |-> JsonUndefined, member |-> member]

\* The data of a request body: nothing, text that JSON.parse rejects, or
\* the text of a JSON value.
Empty == [kind |-> "empty", json |-> Object(JsonUndefined)]
Malformed == [kind |-> "malformed", json |-> Object(JsonUndefined)]
Json(decoded) == [kind |-> "json", json |-> decoded]

\* Line 149: JSON.parse(data || "{}"), and {} when it throws.
parseJson(data) ==
  IF data.kind = "json" THEN data.json ELSE Object(JsonUndefined)

\* body.text throws a TypeError on null (and on undefined).
throwsOnText(b) == ~b.object /\ b.value.t \in {"null", "undefined"}

\* String(body.text || ""): a member that is undefined, null, "" or 0 is
\* falsy; a number is written in decimal.
textOf(b) ==
  LET m == IF b.object THEN b.member ELSE JsonUndefined
  IN IF m.t \in {"undefined", "null"} \/ m.v = <<>> \/ (m.t = "number" /\ m.v = <<"0">>)
     THEN <<>> ELSE m.v

NoResponse == [status |-> 0, error |-> <<>>, html |-> <<>>, unicode |-> <<>>, markdown |-> <<>>]

\* Line 161.
RespondOptions ==
  /\ pc = "request"
  /\ req.method = "OPTIONS"
  /\ res' = [NoResponse EXCEPT !.status = 204]
  /\ pc' = "done"
  /\ UNCHANGED <<text, adjustVars, tokens, formatVars, req, body>>

\* Line 162.
RespondNotPost ==
  /\ pc = "request"
  /\ req.method \notin {"OPTIONS", "POST"}
  /\ res' = [NoResponse EXCEPT !.status = 405, !.error = <<"U", "s", "e", " ", "P", "O", "S", "T">>]
  /\ pc' = "done"
  /\ UNCHANGED <<text, adjustVars, tokens, formatVars, req, body>>

\* Line 164: the body is read and decoded.
ParseJson ==
  /\ pc = "request"
  /\ req.method = "POST"
  /\ body' = parseJson(req.data)
  /\ pc' = "parsed"
  /\ UNCHANGED <<text, adjustVars, tokens, formatVars, req, res>>

\* Line 165, when body.text throws: the promise of the handler rejects and
\* nothing is sent.
RejectOnText ==
  /\ pc = "parsed"
  /\ throwsOnText(body)
  /\ pc' = "rejected"
  /\ UNCHANGED <<text, adjustVars, tokens, formatVars, httpVars>>

\* Line 165, and the call of processText on line 166.
ReadText ==
  /\ pc = "parsed"
  /\ ~throwsOnText(body)
  /\ text' = textOf(body)
  /\ pc' = "adjust"
  /\ UNCHANGED <<adjustVars, tokens, formatVars, httpVars>>

\* Lines 168 to 172.
Respond ==
  /\ pc = "formatted"
  /\ res' = [status |-> 200, error |-> <<>>, html |-> toHtml(out, 1),
             unicode |-> toUnicodeBold(stripMarkers(out, 1)), markdown |-> out]
  /\ pc' = "done"
  /\ UNCHANGED <<text, adjustVars, tokens, formatVars, req, body>>

\* A vowel, a consonant, white space, a terminal character and the asterisk.
HttpAlphabet == {"a", "b", " ", ".", "*"}

Methods == {"GET", "POST", "OPTIONS"}

Bodies ==
  {Empty, Malformed, Json(NonObject(JsonNull)), Json(NonObject(JsonNumber(<<"7">>))),
   Json(Object(JsonUndefined)), Json(Object(JsonNull)), Json(Object(JsonNumber(<<"0">>))),
   Json(Object(JsonNumber(<<"7">>)))}
  \cup {Json(Object(JsonString(t))) : t \in Strings(HttpAlphabet, MaxHttpLen)}

HttpInit ==
  /\ pc = "request"
  /\ req \in [method : Methods, data : Bodies]
  /\ body = Object(JsonUndefined)
  /\ res = NoResponse
  /\ text = <<>>
  /\ tokens = <<>>
  /\ NoAdjust /\ NoFormat

HttpNext ==
  \/ RespondOptions \/ RespondNotPost \/ ParseJson \/ RejectOnText \/ ReadText
  \/ AdjustStart \/ AdjustSentence \/ AdjustJoin \/ TokenizeAdjusted
  \/ FormatStart \/ DrawSize \/ Emphasize \/ Respond

SpecHttp == HttpInit /\ [][HttpNext]_vars

\* C2: for a text without '*', the result of processText with every "**"
\* removed is the adjusted text.
MarkersOnlyInserted ==
  pc = "formatted" /\ "*" \notin Range(text) => stripMarkers(out, 1) = adjusted

\* C8: a POST request never makes the handler reject, and it is answered
\* with status 200 and the fields html, unicode and markdown of the result.
PostAlwaysAnswered ==
  req.method = "POST" =>
    /\ pc # "rejected"
    /\ pc = "done" =>
         /\ res.status = 200
         /\ res.markdown = out
         /\ res.html = toHtml(out, 1)
         /\ res.unicode = toUnicodeBold(stripMarkers(out, 1))

\* ------------------------------------------- the formatter on its own

\* The text of n syllables "ba" with a space after every p of them (no space
\* for p = 0).
RECURSIVE sample(_, _, _)
sample(n, p, k) ==
  IF k > n THEN <<>>
  ELSE <<"b", "a">> \o (IF p > 0 /\ k % p = 0 THEN <<" ">> ELSE <<>>) \o sample(n, p, k + 1)

\* The syllables between two spaces of the inputs.
SepPeriods == {0, 1, 3}

FmtInit ==
  /\ pc = "tokenize"
  /\ text \in {sample(n, p, 1) : n \in 0..MaxSyll, p \in SepPeriods}
  /\ tokens = <<>>
  /\ NoAdjust /\ NoFormat /\ NoHttp

FmtNext == Tokenize \/ FormatStart \/ DrawSize \/ Emphasize

SpecFmt == FmtInit /\ [][FmtNext]_vars

\* The sum of a sequence of numbers.
RECURSIVE Sum(_)
Sum(s) == IF s = <<>> THEN 0 ELSE Head(s) + Sum(Tail(s))

\* C3: every token of the result is the token as tokenized, or that token
\* between one pair of markers, and then it is a syllable token; the output
\* joins these texts.
MarkersWrapWholeSyllables ==
  pc = "formatted" =>
    LET orig == tokenizeToSyllables(text)
    IN /\ Len(tokens) = Len(orig)
       /\ \A k \in 1..Len(orig) :
            \/ tokens[k] = orig[k]
            \/ /\ orig[k].type = "syll"
               /\ tokens[k].text = <<"*", "*">> \o orig[k].text \o <<"*", "*">>
       /\ out = Flatten([k \in 1..Len(tokens) |-> tokens[k].text])

\* Two blocks hold syllables, separators lie between them, and syllables of
\* both blocks are marked.
MarkersWrapWholeSyllablesWitness ==
  /\ pc = "formatted"
  /\ Len(blocks) >= 2 /\ blocks[1] # <<>> /\ blocks[2] # <<>>
  /\ \E k \in 1..Len(tokens) : tokens[k].type = "sep"
  /\ \A b \in 1..2 : \E i \in 1..Len(blocks[b]) :
       tokens[blocks[b][i]].text = <<"*", "*", "b", "a", "*", "*">>

\* C4: the blocks, laid end to end, are the syllable indices in order, and
\* the sizes sum to at least the number of syllables.
BlocksPartitionSyllables ==
  pc = "formatted" =>
    /\ Flatten(blocks) = syllIdxs(tokens, 1)
    /\ Sum(sizes) >= Len(syllIdxs(tokens, 1))

\* More syllables than the first block holds: a second block takes the rest.
BlocksPartitionSyllablesWitness ==
  /\ pc = "formatted"
  /\ Len(syllIdxs(tokens, 1)) > base
  /\ Len(blocks[1]) = base
  /\ blocks[2] # <<>>

\* C5: the first size is the base, 21, and every later size lies in [4, 12].
SizesWithinBounds ==
  pc \in {"sizes", "formatted"} =>
    /\ sizes[1] = 21
    /\ \A k \in 2..Len(sizes) : sizes[k] >= 4 /\ sizes[k] <= 12

\* The walk went far enough for the lower bound to cut the size, after a
\* size the upper bound cut.
SizesWithinBoundsWitness ==
  /\ pc = "sizes"
  /\ Len(sizes) >= 3
  /\ sizes[2] = 12
  /\ rawSize(W) < 4
  /\ sizes[Len(sizes)] = 4

\* C6: the number of sizes is ceil(total / 2), also for total = 0.
SizesLength ==
  pc = "formatted" =>
    LET total == Len(syllIdxs(tokens, 1))
    IN Len(sizes) = (total + 1) \div 2

====
